---- MODULE Spec2Model ----
(***************************************************************************)
(* Model of clickup_api_lib/clickup_file.py: the Clickup task draft, its   *)
(* lifecycle (add_task / update_task / add_attachment), its body setters   *)
(* and its lazily fetched reference data (statuses, custom-field ids,      *)
(* space id, space tags).  The remote service is the environment: every    *)
(* requests.get/post/put call of the source receives a nondeterministic    *)
(* response drawn from a small set.                                        *)
(***************************************************************************)
EXTENDS Integers, Sequences, FiniteSets, TLC

(***************************************************************************)
(* The records of the model.  A Python value is [t, s]: t is its type and  *)
(* s its text as a sequence of characters (None has no text).  An outcome  *)
(* is the exception a call ended with ("none": it returned).  A response   *)
(* of the remote service is a transport failure (requests raises a         *)
(* RequestException: exc) or an HTTP response with a status code and the   *)
(* part of its JSON payload that the caller reads.                         *)
(***************************************************************************)
PyValue(t, s) == [t |-> t, s |-> s]

Outcome(exc, msg) == [exc |-> exc, msg |-> msg]

Resp(exc, code, data) == [exc |-> exc, code |-> code, data |-> data]

\* a request: the function that issued it, the method, the path with the id
\* it addresses, and the JSON body sent
Req(fn, m, path, target, json) ==
    [fn |-> fn, m |-> m, path |-> path, target |-> target, json |-> json]

\* a call: the operation, its argument, its outcome and the requests it issued
Call(op, arg, out, reqs) == [op |-> op, arg |-> arg, out |-> out, reqs |-> reqs]

\* one {"id": ..., "value": ...} of self.customFields
Entry(k, v) == [id |-> k, value |-> v]

\* the argument of add_customFields: whether it is a dict, and its items
DictArg(isdict, items) == [isdict |-> isdict, items |-> items]

\* one status of a list response, with the keys it carries
StatusEntry(keys, status, orderindex) ==
    [keys |-> keys, status |-> status, orderindex |-> orderindex]

\* what the helpers below return
LoopResult(o, vs) == [out |-> o, vs |-> vs]

StatusResult(o, rs, v) == [out |-> o, reqs |-> rs, vs |-> v]

FieldsResult(j, o, rs) == [json |-> j, out |-> o, reqs |-> rs]

EntriesResult(o, cfs) == [out |-> o, cfs |-> cfs]

SpaceResult(l, sid, rs, o) == [out |-> o, reqs |-> rs, list_id |-> l, space_id |-> sid]

TagsResult(r, tg, rs, o, g) ==
    [out |-> o, reqs |-> rs, list_id |-> r.list_id, space_id |-> r.space_id,
     tags |-> tg, got |-> g]

PyNone == PyValue("NoneType", <<>>)

Str(cs) == PyValue("str", cs)

PyInt(cs) == PyValue("int", cs)

IsNone(v) == v.t = "NoneType"

IsStr(v) == v.t = "str"

\* str(v): the text of v as a str
PyStr(v) == IF v.t = "NoneType" THEN Str(<<"N", "o", "n", "e">>) ELSE Str(v.s)

\* bool(v) for None, str and int values
Truthy(v) ==
    CASE v.t = "NoneType" -> FALSE
      [] v.t = "str" -> v.s # <<>>
      [] v.t = "int" -> v.s # <<"0">>
      [] OTHER -> TRUE

Whitespace == {" ", "\t", "\n"}

RECURSIVE LStrip(_)
LStrip(cs) ==
    IF cs = <<>> THEN <<>>
    ELSE IF Head(cs) \in Whitespace THEN LStrip(Tail(cs)) ELSE cs

RECURSIVE RStrip(_)
RStrip(cs) ==
    IF cs = <<>> THEN <<>>
    ELSE IF cs[Len(cs)] \in Whitespace THEN RStrip(SubSeq(cs, 1, Len(cs) - 1)) ELSE cs

\* a strip() that strips nothing
Strip_Nothing(cs) == cs

\* str.strip()
Strip(cs) == RStrip(LStrip(cs))

is_not_empty(value) ==
    IF value.t = "NoneType" THEN FALSE
    ELSE IF value.t = "float" /\ value.s = <<"n", "a", "n">> THEN FALSE
    ELSE IF value.t = "str" /\ Strip(value.s) = <<>> THEN FALSE
    ELSE IF value.t \in {"list", "tuple", "set", "dict"} /\ value.s = <<>> THEN FALSE
    ELSE TRUE

(***************************************************************************)
(* The body dict: a function from the keys present to their values.        *)
(***************************************************************************)
EmptyBody == [k \in {} |-> PyNone]

SetKey(b, k, v) == [x \in (DOMAIN b) \cup {k} |-> IF x = k THEN v ELSE b[x]]

\* an attribute that was never assigned (hasattr is False) is <<>>, an
\* assigned one is <<value>>
Unset == <<>>

Attr(v) == <<v>>

HasAttr(a) == a # <<>>

(***************************************************************************)
(* State of one Clickup instance.                                          *)
(***************************************************************************)
VARIABLES
    body,                     \* self.body
    id,                       \* self.id
    list_id,                  \* self.list_id
    valid_CustomFields_ids,   \* self.valid_CustomFields_ids: <<>> for None, else <<ids>>
    customFields,             \* self.customFields
    validStatuses,            \* self.validStatuses (attribute may be missing)
    space_id,                 \* self.space_id (attribute may be missing)
    tags,                     \* self.tags (attribute may be missing)
    last,                     \* the last call: operation, argument, outcome, requests issued
    tick,                     \* flips on every call, so that no call is a stuttering step
    created,                  \* history: the id of the create response that succeeded
    fetched                   \* history: reference data fetched successfully so far

draft == <<body, id, list_id, valid_CustomFields_ids, customFields,
           validStatuses, space_id, tags>>

vars == <<body, id, list_id, valid_CustomFields_ids, customFields,
          validStatuses, space_id, tags, last, tick, created, fetched>>

(***************************************************************************)
(* Outcomes and requests.                                                  *)
(***************************************************************************)
Ok == Outcome("none", "")

ValueError(text) == Outcome("ValueError", text)

(***************************************************************************)
(* Bounds and input sets.                                                  *)
(***************************************************************************)
MaxTags == 2

MaxCF == 2

Names == {Str(<<>>), Str(<<" ">>), Str(<<"T">>), Str(<<" ", "T">>)}

NameArgs == Names \cup {PyNone, PyInt(<<"7">>)}

ListIds == {Str(<<"L", "1">>), Str(<<"L", "2">>)}

TaskIds == {Str(<<"t", "1">>), Str(<<"t", "2">>)}

\* what response.json().get("id") can be in a create response
CreateIds == TaskIds \cup {PyNone, Str(<<>>)}

StatusCodes == {200, 404}

\* responses to the create request: data is response.json().get("id")
CreateResps ==
    {Resp(TRUE, 0, PyNone)} \cup {Resp(FALSE, c, i) : c \in StatusCodes, i \in CreateIds}

\* responses whose payload the caller does not read into the draft
PlainResps == {Resp(TRUE, 0, PyNone)} \cup {Resp(FALSE, c, PyNone) : c \in StatusCodes}

(***************************************************************************)
(* __init__ (lines 16-33) runs add_name(name) on the empty body.           *)
(***************************************************************************)
\* add_name, lines 445-451: only a str is written; anything else is
\* converted to a local str and dropped
add_name_body(b, name) == IF IsStr(name) THEN SetKey(b, "name", name) ELSE b

Init ==
    /\ \E name \in NameArgs : body = add_name_body(EmptyBody, name)
    /\ id = PyNone
    /\ valid_CustomFields_ids = <<>>
    /\ list_id \in ListIds \cup {PyNone}
    /\ customFields = <<>>
    /\ validStatuses = Unset
    /\ space_id = Unset
    /\ tags = Unset
    /\ last = Call("__init__", PyNone, Ok, <<>>)
    /\ tick = FALSE
    /\ created = PyNone
    /\ fetched = {}

(***************************************************************************)
(* add_task, lines 116-151.                                                *)
(***************************************************************************)
\* lines 126-127
RebindList(cur, arg) == IF ~IsNone(arg) THEN arg ELSE cur

\* the list check left out
NoList_Never(l) == FALSE

\* line 129
NoList(l) == IsNone(l)

\* the already-created check left out
AlreadyCreated_Never(i) == FALSE

\* line 132
AlreadyCreated(i) == ~IsNone(i)

\* line 135
NameMissing(b) == "name" \notin DOMAIN b \/ ~is_not_empty(b["name"])

\* line 144: self.id = response.json().get("id"), assigned before it is tested
CreatedId(resp) == resp.data

\* line 145
IdUnusable(i) == ~Truthy(i)

add_task(arg, resp) ==
    LET l == RebindList(list_id, arg)
        rq == Req("add_task", "POST", "list/_/task", l, body)
    IN  /\ list_id' = l
        /\ IF NoList(l)
           THEN /\ last' = Call("add_task", arg, ValueError("None list id provided."), <<>>)
                /\ UNCHANGED <<id, created>>
           ELSE IF AlreadyCreated(id)
           THEN /\ last' = Call("add_task", arg, ValueError("Task already created."), <<>>)
                /\ UNCHANGED <<id, created>>
           ELSE IF NameMissing(body)
           THEN /\ last' = Call("add_task", arg,
                                ValueError("Task creation failed: 'name' is missing or empty in the task body."),
                                <<>>)
                /\ UNCHANGED <<id, created>>
           ELSE IF resp.exc
           THEN /\ last' = Call("add_task", arg,
                                ValueError("Unexcpeted error occurred while adding task"), <<rq>>)
                /\ UNCHANGED <<id, created>>
           ELSE IF resp.code = 200
           THEN /\ id' = CreatedId(resp)
                /\ IF IdUnusable(CreatedId(resp))
                   THEN /\ last' = Call("add_task", arg,
                                        ValueError("Task creation failed: 'id' not found in response."),
                                        <<rq>>)
                        /\ UNCHANGED created
                   ELSE /\ last' = Call("add_task", arg, Ok, <<rq>>)
                        /\ created' = resp.data
           ELSE /\ last' = Call("add_task", arg, ValueError("Task creation failed: status"), <<rq>>)
                /\ UNCHANGED <<id, created>>
        /\ tick' = ~tick
        /\ UNCHANGED <<body, valid_CustomFields_ids, customFields, validStatuses,
                       space_id, tags, fetched>>

(***************************************************************************)
(* add_name, lines 435-451, and clear_task, lines 457-460.                 *)
(***************************************************************************)
add_name(name) ==
    /\ body' = add_name_body(body, name)
    /\ last' = Call("add_name", name, Ok, <<>>)
    /\ tick' = ~tick
    /\ UNCHANGED <<id, list_id, valid_CustomFields_ids, customFields, validStatuses,
                   space_id, tags, created, fetched>>

\* a clear_task that drops the status cache as well
clear_task_DropsCache ==
    /\ body' = EmptyBody
    /\ customFields' = <<>>
    /\ validStatuses' = Unset
    /\ last' = Call("clear_task", PyNone, Ok, <<>>)
    /\ tick' = ~tick
    /\ UNCHANGED <<id, list_id, valid_CustomFields_ids, space_id, tags, created, fetched>>

clear_task ==
    /\ body' = EmptyBody
    /\ customFields' = <<>>
    /\ last' = Call("clear_task", PyNone, Ok, <<>>)
    /\ tick' = ~tick
    /\ UNCHANGED <<id, list_id, valid_CustomFields_ids, validStatuses,
                   space_id, tags, created, fetched>>

(***************************************************************************)
(* update_task, lines 462-483.                                             *)
(***************************************************************************)
\* the identity check left out
NoTaskId_Never(i) == FALSE

\* line 469
NoTaskId(i) == IsNone(i)

\* an update request that carries an empty body
UpdateRequest_NoBody(i, b) == Req("update_task", "PUT", "task/_", i, EmptyBody)

\* lines 472-475: requests.put(url, headers=self.headers, json=self.body)
UpdateRequest(i, b) == Req("update_task", "PUT", "task/_", i, b)

update_task(resp) ==
    LET rq == UpdateRequest(id, body)
    IN  /\ IF NoTaskId(id)
           THEN last' = Call("update_task", PyNone, ValueError("No task ID provided."), <<>>)
           ELSE IF resp.exc
           THEN last' = Call("update_task", PyNone,
                             ValueError("Unexcpeted error occurred while updateing task"), <<rq>>)
           ELSE IF resp.code = 200
           THEN last' = Call("update_task", PyNone, Ok, <<rq>>)
           ELSE last' = Call("update_task", PyNone, ValueError("Task update failed: status"), <<rq>>)
        /\ tick' = ~tick
        /\ UNCHANGED <<draft, created, fetched>>

(***************************************************************************)
(* add_attachment, lines 605-629.  file_stream is modelled by whether it   *)
(* has a read attribute.                                                   *)
(***************************************************************************)
\* line 617
TaskIdNotSet(i) == ~Truthy(i)

add_attachment(hasRead, resp) ==
    LET rq == Req("add_attachment", "POST", "task/_/attachment", id, EmptyBody)
        arg == IF hasRead THEN Str(<<"f">>) ELSE PyNone
    IN  /\ IF ~hasRead
           THEN last' = Call("add_attachment", arg,
                             ValueError("file_stream must be a file-like object"), <<>>)
           ELSE IF TaskIdNotSet(id)
           THEN last' = Call("add_attachment", arg,
                             ValueError("Task ID is not set. Create the task first."), <<>>)
           ELSE IF resp.exc
           THEN last' = Call("add_attachment", arg,
                             Outcome("RequestException", "transport"), <<rq>>)
           ELSE IF resp.code = 200
           THEN last' = Call("add_attachment", arg, Ok, <<rq>>)
           ELSE last' = Call("add_attachment", arg,
                             ValueError("Failed to upload attachment: status"), <<rq>>)
        /\ tick' = ~tick
        /\ UNCHANGED <<draft, created, fetched>>

(***************************************************************************)
(* get_statuses, lines 485-515.  The response payload is <<>> when the     *)
(* JSON has no "statuses" key, else <<entries>>; an entry carries the keys *)
(* it has.                                                                 *)
(***************************************************************************)
EmptyDict == [k \in {} |-> PyNone]

DictValues(d) == {d[k] : k \in DOMAIN d}

ParseError == ValueError("Failed to parse statuses from response")

\* lines 507-513: the loop over response.json()["statuses"]; statuses is the
\* dict built so far and vs the attribute self.validStatuses, assigned in
\* every iteration
RECURSIVE StatusLoop(_, _, _)
StatusLoop(entries, statuses, vs) ==
    IF entries = <<>> THEN LoopResult(Ok, vs)
    ELSE LET e == Head(entries) IN
         IF "status" \notin e.keys THEN LoopResult(ParseError, vs)
         ELSE IF ~IsStr(e.status)
         THEN LoopResult(ValueError("Status is not a string"), vs)
         ELSE IF "orderindex" \notin e.keys THEN LoopResult(ParseError, vs)
         ELSE LET d == SetKey(statuses, e.orderindex, e.status)
              IN  StatusLoop(Tail(entries), d, Attr(d))

\* the whole of get_statuses on list l with attribute vs: the new
\* attribute, the outcome and the requests issued
get_statuses_result(l, vs, resp) ==
    LET rq == Req("get_statuses", "GET", "list/_", l, EmptyBody) IN
    IF IsNone(l)
    THEN StatusResult(ValueError("No list ID provided."), <<>>, vs)
    ELSE IF resp.exc \/ resp.code # 200
    THEN StatusResult(ValueError("Failed to fetch statuses"), <<rq>>, vs)
    ELSE IF resp.data = <<>>
    THEN StatusResult(ParseError, <<rq>>, vs)
    ELSE LET r == StatusLoop(resp.data[1], EmptyDict, vs)
         IN  StatusResult(r.out, <<rq>>, r.vs)

\* history: the reference data kind is fetched once a call that requested it
\* came back without error
Got(kind, out, reqs) == IF out = Ok /\ reqs # <<>> THEN {kind} ELSE {}

get_statuses(resp) ==
    LET r == get_statuses_result(list_id, validStatuses, resp)
    IN  /\ validStatuses' = r.vs
        /\ last' = Call("get_statuses", PyNone, r.out, r.reqs)
        /\ fetched' = fetched \cup Got("get_statuses", r.out, r.reqs)
        /\ tick' = ~tick
        /\ UNCHANGED <<body, id, list_id, valid_CustomFields_ids, customFields,
                       space_id, tags, created>>

(***************************************************************************)
(* add_status, lines 224-255.                                              *)
(***************************************************************************)
\* lines 234 and 236: not hasattr(self, 'validStatuses') or not self.validStatuses
NoStatuses(vs) == ~HasAttr(vs) \/ DOMAIN vs[1] = {}

\* the membership check left out
StatusInvalid_Never(status, vs) == FALSE

\* line 252
StatusInvalid(status, vs) == status \notin DictValues(vs[1])

add_status(status, resp) ==
    LET need == NoStatuses(validStatuses)
        r == IF need THEN get_statuses_result(list_id, validStatuses, resp)
             ELSE StatusResult(Ok, <<>>, validStatuses)
        s == PyStr(status)
    IN  /\ validStatuses' = r.vs
        /\ fetched' = fetched \cup Got("get_statuses", r.out, r.reqs)
        /\ IF r.out # Ok
           THEN /\ last' = Call("add_status", status, r.out, r.reqs)
                /\ UNCHANGED body
           ELSE IF NoStatuses(r.vs)
           THEN /\ last' = Call("add_status", status,
                                ValueError("Could not obtain statuses. No list ID provided."),
                                r.reqs)
                /\ UNCHANGED body
           ELSE IF StatusInvalid(s, r.vs)
           THEN /\ last' = Call("add_status", status, ValueError("Invalid status"), r.reqs)
                /\ UNCHANGED body
           ELSE /\ body' = SetKey(body, "status", s)
                /\ last' = Call("add_status", status, Ok, r.reqs)
        /\ tick' = ~tick
        /\ UNCHANGED <<id, list_id, valid_CustomFields_ids, customFields,
                       space_id, tags, created>>

(***************************************************************************)
(* get_customFields, lines 397-412, and add_customFields, lines 369-395.   *)
(* The payload of a field response is <<>> when the JSON has no "fields"   *)
(* key, else <<ids>>, the ids of the field definitions in order.  The      *)
(* argument of add_customFields is a dict, given as its items in order, or *)
(* something that is not a dict.                                           *)
(***************************************************************************)
FetchError == ValueError("Failed to fetch custom fields")

KeyError(k) == Outcome("KeyError", k)

\* lines 406-412: the request goes out whatever list_id is
get_customFields_result(l, resp) ==
    LET rq == Req("get_customFields", "GET", "list/_/field", l, EmptyBody) IN
    IF resp.exc \/ resp.code # 200
    THEN FieldsResult(<<>>, FetchError, <<rq>>)
    ELSE FieldsResult(resp.data, Ok, <<rq>>)

get_customFields(resp) ==
    LET r == get_customFields_result(list_id, resp)
    IN  /\ last' = Call("get_customFields", PyNone, r.out, r.reqs)
        /\ fetched' = fetched \cup Got("get_customFields", r.out, r.reqs)
        /\ tick' = ~tick
        /\ UNCHANGED <<draft, created>>

InList(x, xs) == \E i \in DOMAIN xs : xs[i] = x

\* the ids fetched on every call
IdsUnknown_Always(ids) == TRUE

\* line 383
IdsUnknown(ids) == ids = <<>>

\* line 387
FieldInvalid(key, ids) == ~InList(key, ids)

\* lines 386-393: the loop over customFields.items(); cfs is self.customFields,
\* appended to in place
RECURSIVE FieldLoop(_, _, _)
FieldLoop(items, ids, cfs) ==
    IF items = <<>> THEN EntriesResult(Ok, cfs)
    ELSE LET e == Head(items) IN
         IF FieldInvalid(e.id, ids)
         THEN EntriesResult(ValueError("Invalid custom field ID"), cfs)
         ELSE IF IsStr(e.value)
         THEN FieldLoop(Tail(items), ids, Append(cfs, Entry(e.id, e.value)))
         ELSE EntriesResult(ValueError("Invalid custom field value"), cfs)

\* body["custom_fields"], once written (line 395), is the list object
\* self.customFields itself: it shows every later append
Aliased(b, cfs) ==
    IF "custom_fields" \in DOMAIN b THEN [b EXCEPT !["custom_fields"] = cfs] ELSE b

add_customFields(arg, resp) ==
    /\ Len(customFields) + Len(arg.items) <= MaxCF
    /\ IF ~arg.isdict
       THEN /\ last' = Call("add_customFields", arg,
                            ValueError("Expected a dict instance from customFields"), <<>>)
            /\ UNCHANGED <<body, valid_CustomFields_ids, customFields, fetched>>
       ELSE LET need == IdsUnknown(valid_CustomFields_ids)
                f == IF need THEN get_customFields_result(list_id, resp)
                     ELSE FieldsResult(<<>>, Ok, <<>>)
            IN  /\ fetched' = fetched \cup Got("get_customFields", f.out, f.reqs)
                /\ IF f.out # Ok
                   THEN /\ last' = Call("add_customFields", arg, f.out, f.reqs)
                        /\ UNCHANGED <<body, valid_CustomFields_ids, customFields>>
                   ELSE IF need /\ f.json = <<>>
                   THEN /\ last' = Call("add_customFields", arg, KeyError("fields"), f.reqs)
                        /\ UNCHANGED <<body, valid_CustomFields_ids, customFields>>
                   ELSE LET ids == IF need THEN f.json ELSE valid_CustomFields_ids
                            r == FieldLoop(arg.items, ids[1], customFields)
                        IN  /\ valid_CustomFields_ids' = ids
                            /\ customFields' = r.cfs
                            /\ body' = IF r.out = Ok
                                       THEN SetKey(body, "custom_fields", r.cfs)
                                       ELSE Aliased(body, r.cfs)
                            /\ last' = Call("add_customFields", arg, r.out, f.reqs)
    /\ tick' = ~tick
    /\ UNCHANGED <<id, list_id, validStatuses, space_id, tags, created>>

(***************************************************************************)
(* get_space_id, lines 535-564.  r1 answers the task request (its payload  *)
(* is the task's list id), r2 the list request (its payload is the space   *)
(* id).                                                                    *)
(***************************************************************************)
get_space_id_result(l, i, sid, r1, r2) ==
    LET q1 == Req("get_space_id", "GET", "task/_", i, EmptyBody)
        ask == IsNone(l) /\ ~IsNone(i)
        l2 == IF ask /\ ~r1.exc /\ r1.code = 200 THEN r1.data ELSE l
        q2 == Req("get_space_id", "GET", "list/_", l2, EmptyBody)
        qs == IF ask THEN <<q1, q2>> ELSE <<q2>>
    IN  IF IsNone(l) /\ IsNone(i)
        THEN SpaceResult(l, sid, <<>>, ValueError("No list ID nor task id provided."))
        ELSE IF ask /\ (r1.exc \/ r1.code # 200)
        THEN SpaceResult(l, sid, <<q1>>, ValueError("Failed to fetch list ID from task"))
        ELSE IF r2.exc \/ r2.code # 200
        THEN SpaceResult(l2, sid, qs, ValueError("Failed to fetch space ID"))
        ELSE SpaceResult(l2, Attr(r2.data), qs, Ok)

\* of the requests of get_space_id only the list request fetches the space id
SpaceFetched(r) == Got("get_space_id", r.out, r.reqs)

get_space_id(r1, r2) ==
    LET r == get_space_id_result(list_id, id, space_id, r1, r2)
    IN  /\ list_id' = r.list_id
        /\ space_id' = r.space_id
        /\ last' = Call("get_space_id", PyNone, r.out, r.reqs)
        /\ fetched' = fetched \cup SpaceFetched(r)
        /\ tick' = ~tick
        /\ UNCHANGED <<body, id, valid_CustomFields_ids, customFields, validStatuses,
                       tags, created>>

(***************************************************************************)
(* get_space_tags, lines 566-584, and add_tag, lines 586-603.  r3 answers  *)
(* the tag request; its payload is response.json().get("tags", []).        *)
(***************************************************************************)
\* line 572
NoSpaceId(sid) == ~HasAttr(sid) \/ ~Truthy(sid[1])

get_space_tags_result(l, i, sid, tg, r1, r2, r3) ==
    LET s == IF NoSpaceId(sid) THEN get_space_id_result(l, i, sid, r1, r2)
             ELSE SpaceResult(l, sid, <<>>, Ok)
        q3 == Req("get_space_tags", "GET", "space/_/tag", s.space_id[1], EmptyBody)
    IN  IF s.out # Ok
        THEN TagsResult(s, tg, s.reqs, s.out, SpaceFetched(s))
        ELSE IF r3.exc \/ r3.code # 200
        THEN TagsResult(s, tg, Append(s.reqs, q3), ValueError("Failed to fetch tags"),
                        SpaceFetched(s))
        ELSE TagsResult(s, Attr(r3.data), Append(s.reqs, q3), Ok,
                        SpaceFetched(s) \cup {"get_space_tags"})

get_space_tags(r1, r2, r3) ==
    LET r == get_space_tags_result(list_id, id, space_id, tags, r1, r2, r3)
    IN  /\ list_id' = r.list_id
        /\ space_id' = r.space_id
        /\ tags' = r.tags
        /\ last' = Call("get_space_tags", PyNone, r.out, r.reqs)
        /\ fetched' = fetched \cup r.got
        /\ tick' = ~tick
        /\ UNCHANGED <<body, id, valid_CustomFields_ids, customFields, validStatuses,
                       created>>

\* line 595: not hasattr(self, 'tags') or not self.tags
NoTags(tg) == ~HasAttr(tg) \/ tg[1] = <<>>

\* an add_tag that starts from an empty list every time
BodyTags_Fresh(b) == <<>>

\* lines 599-600: body["tags"], created empty when the key is missing
BodyTags(b) == IF "tags" \in DOMAIN b THEN b["tags"] ELSE <<>>

add_tag(tag_name, r1, r2, r3) ==
    LET r == IF NoTags(tags)
             THEN get_space_tags_result(list_id, id, space_id, tags, r1, r2, r3)
             ELSE TagsResult(SpaceResult(list_id, space_id, <<>>, Ok), tags, <<>>, Ok, {})
    IN  /\ Len(BodyTags(body)) < MaxTags
        /\ list_id' = r.list_id
        /\ space_id' = r.space_id
        /\ tags' = r.tags
        /\ fetched' = fetched \cup r.got
        /\ IF r.out # Ok
           THEN /\ last' = Call("add_tag", tag_name, r.out, r.reqs)
                /\ UNCHANGED body
           ELSE IF IsStr(tag_name)
           THEN /\ body' = SetKey(body, "tags", Append(BodyTags(body), tag_name))
                /\ last' = Call("add_tag", tag_name, Ok, r.reqs)
           ELSE /\ last' = Call("add_tag", tag_name,
                                ValueError("Tag name must be a string"), r.reqs)
                /\ UNCHANGED body
        /\ tick' = ~tick
        /\ UNCHANGED <<id, valid_CustomFields_ids, customFields, validStatuses, created>>

(***************************************************************************)
(* add_assignees, lines 181-202.  A list, tuple or set is a value whose s  *)
(* is the sequence of its elements as the caller wrote them.               *)
(***************************************************************************)
PyBool(cs) == PyValue("bool", cs)

PyList(xs) == PyValue("list", xs)

PyTuple(xs) == PyValue("tuple", xs)

PySet(xs) == PyValue("set", xs)

PyDict(xs) == PyValue("dict", xs)

\* an isinstance check that lets everything through
IsInstanceInt_Any(v) == TRUE

\* isinstance(v, int), lines 191 and 199: bool is a subclass of int
IsInstanceInt(v) == v.t \in {"int", "bool"}

\* True == 1: a set holds one of two equal values
AsInt(v) == IF v.t = "bool" THEN PyInt(IF v.s = <<"True">> THEN <<"1">> ELSE <<"0">>) ELSE v

Without(xs, i) == SubSeq(xs, 1, i - 1) \o SubSeq(xs, i + 1, Len(xs))

RECURSIVE Perms(_)
Perms(xs) ==
    IF xs = <<>> THEN {<<>>}
    ELSE UNION {{<<xs[i]>> \o p : p \in Perms(Without(xs, i))} : i \in DOMAIN xs}

\* list(v), lines 194 and 215: a list or tuple keeps its order; a set is
\* iterated in the order of its hash table, which is any order
ListOf(v) == IF v.t = "set" THEN Perms(v.s) ELSE {v.s}

\* listed is list(assignees) when assignees is a list, tuple or set
add_assignees(assignees, listed) ==
    LET single == IsInstanceInt(assignees)
        items == IF single THEN <<assignees>> ELSE listed
    IN  /\ IF ~single /\ assignees.t \notin {"set", "tuple", "list"}
           THEN /\ last' = Call("add_assignees", assignees,
                                ValueError("Assignees must be a list or one item"), <<>>)
                /\ UNCHANGED body
           ELSE IF \E i \in DOMAIN items : ~IsInstanceInt(items[i])
           THEN /\ last' = Call("add_assignees", assignees,
                                ValueError("All assignees must be an integers"), <<>>)
                /\ UNCHANGED body
           ELSE /\ body' = SetKey(body, "assignees", items)
                /\ last' = Call("add_assignees", assignees, Ok, <<>>)
        /\ tick' = ~tick
        /\ UNCHANGED <<id, list_id, valid_CustomFields_ids, customFields, validStatuses,
                       space_id, tags, created, fetched>>

(***************************************************************************)
(* add_dueDate, lines 280-295, and add_startDate, lines 306-321.  time is  *)
(* a number of milliseconds; a datetime is an instant of a clock that      *)
(* reads Resolution instants per millisecond (datetime.now() is finer than *)
(* the argument).  current_time is what datetime.now() returns in the      *)
(* call.                                                                   *)
(***************************************************************************)
Resolution == 2

\* datetime.fromtimestamp(time / 1000), lines 290 and 316
FromTimestamp(time) == time * Resolution

TypeError(text) == Outcome("TypeError", text)

\* a check that lets the current instant through
NotAfter_Strict(due_date, current_time) == due_date < current_time

\* line 292: due_date <= current_time
NotAfter(due_date, current_time) == due_date <= current_time

add_dueDate(time, specify_time, current_time) ==
    LET due_date == FromTimestamp(time)
    IN  /\ IF NotAfter(due_date, current_time)
           THEN /\ last' = Call("add_dueDate", <<time, specify_time>>,
                                ValueError("Due date must be in the future"), <<>>)
                /\ UNCHANGED body
           ELSE /\ body' = SetKey(SetKey(body, "due_date", time),
                                  "due_date_time", specify_time)
                /\ last' = Call("add_dueDate", <<time, specify_time>>, Ok, <<>>)
        /\ tick' = ~tick
        /\ UNCHANGED <<id, list_id, valid_CustomFields_ids, customFields, validStatuses,
                       space_id, tags, created, fetched>>

\* line 318: when start_date < current_time the right operand of the and is
\* evaluated, (current_time - start_date) > 1, a timedelta compared with an
\* int: Python raises TypeError
add_startDate(time, specify_time, current_time) ==
    LET start_date == FromTimestamp(time)
    IN  /\ IF start_date < current_time
           THEN /\ last' = Call("add_startDate", <<time, specify_time>>,
                                TypeError("'>' not supported between instances of 'datetime.timedelta' and 'int'"),
                                <<>>)
                /\ UNCHANGED body
           ELSE /\ body' = SetKey(SetKey(body, "start_date", time),
                                  "start_date_time", specify_time)
                /\ last' = Call("add_startDate", <<time, specify_time>>, Ok, <<>>)
        /\ tick' = ~tick
        /\ UNCHANGED <<id, list_id, valid_CustomFields_ids, customFields, validStatuses,
                       space_id, tags, created, fetched>>

(***************************************************************************)
(* add_tags, lines 204-222.                                                *)
(***************************************************************************)
\* line 219: [str(tag) for tag in tags]
Stringified(items) == [i \in DOMAIN items |-> PyStr(items[i])]

\* listed is list(tags) when tags is a list, tuple or set
add_tags(tg, listed) ==
    LET single == IsStr(tg)
        items == IF single THEN <<tg>> ELSE listed
    IN  /\ IF ~single /\ tg.t \notin {"set", "tuple", "list"}
           THEN /\ last' = Call("add_tags", tg,
                                ValueError("Assignees must be a list or one item"), <<>>)
                /\ UNCHANGED body
           ELSE /\ body' = SetKey(body, "tags", Stringified(items))
                /\ last' = Call("add_tags", tg, Ok, <<>>)
        /\ tick' = ~tick
        /\ UNCHANGED <<id, list_id, valid_CustomFields_ids, customFields, validStatuses,
                       space_id, tags, created, fetched>>

(***************************************************************************)
(* check_task_validity, lines 35-62, as add_parent (lines 337-351) and     *)
(* add_linksTo (lines 353-367) call it: with a task_id that is not None.   *)
(***************************************************************************)
\* lines 52-56
ProbeRequest(task_id) == Req("check_task_validity", "GET", "task/_", task_id, EmptyBody)

\* lines 61-62: any exception of the request becomes a ValueError
ProbeFailed(resp) == resp.exc

\* lines 57-60: True for a 200, False otherwise
ProbeValid(resp) == resp.code = 200

\* the outcome and the body of a call that probes task_id and writes it at key
check_and_write(op, key, task_id, resp) ==
    IF ProbeFailed(resp)
    THEN /\ last' = Call(op, task_id, ValueError("Unexpected error occurred"),
                         <<ProbeRequest(task_id)>>)
         /\ UNCHANGED body
    ELSE IF ProbeValid(resp)
    THEN /\ body' = SetKey(body, key, task_id)
         /\ last' = Call(op, task_id, Ok, <<ProbeRequest(task_id)>>)
    ELSE /\ last' = Call(op, task_id, ValueError("Invalid task ID"),
                         <<ProbeRequest(task_id)>>)
         /\ UNCHANGED body

\* line 346: only a str is looked at; anything else falls through and the
\* call returns
add_parent(task_id, resp) ==
    /\ IF IsStr(task_id)
       THEN check_and_write("add_parent", "parent", task_id, resp)
       ELSE /\ last' = Call("add_parent", task_id, Ok, <<>>)
            /\ UNCHANGED body
    /\ tick' = ~tick
    /\ UNCHANGED <<id, list_id, valid_CustomFields_ids, customFields, validStatuses,
                   space_id, tags, created, fetched>>

\* line 362: only an int is looked at
add_linksTo(task_id, resp) ==
    /\ IF IsInstanceInt(task_id)
       THEN check_and_write("add_linksTo", "links_to", task_id, resp)
       ELSE /\ last' = Call("add_linksTo", task_id, Ok, <<>>)
            /\ UNCHANGED body
    /\ tick' = ~tick
    /\ UNCHANGED <<id, list_id, valid_CustomFields_ids, customFields, validStatuses,
                   space_id, tags, created, fetched>>

(***************************************************************************)
(* get_first_status, lines 517-533.  A call that returns a value has it as *)
(* the msg of its outcome.                                                 *)
(***************************************************************************)
Returned(v) == Outcome("none", v)

\* line 531: statuses[0] on the dict keyed by order index
get_first_status(resp) ==
    LET need == NoStatuses(validStatuses)
        r == IF need THEN get_statuses_result(list_id, validStatuses, resp)
             ELSE StatusResult(Ok, <<>>, validStatuses)
    IN  /\ validStatuses' = r.vs
        /\ fetched' = fetched \cup Got("get_statuses", r.out, r.reqs)
        /\ IF r.out # Ok
           THEN last' = Call("get_first_status", PyNone, r.out, r.reqs)
           ELSE IF NoStatuses(r.vs)
           THEN last' = Call("get_first_status", PyNone,
                             ValueError("Could not obtain statuses. No list ID provided."),
                             r.reqs)
           ELSE IF 0 \in DOMAIN r.vs[1]
           THEN last' = Call("get_first_status", PyNone, Returned(r.vs[1][0]), r.reqs)
           ELSE last' = Call("get_first_status", PyNone, KeyError("0"), r.reqs)
        /\ tick' = ~tick
        /\ UNCHANGED <<body, id, list_id, valid_CustomFields_ids, customFields,
                       space_id, tags, created>>

(***************************************************************************)
(* add_watcher, lines 414-422, and remove_watcher, lines 424-432.  The     *)
(* body is always a dict, so lines 415-416 and 425-426 never assign.       *)
(***************************************************************************)
\* lines 418-419 and 428-429: {"add": [], "rem": []}
NoWatchers == SetKey(SetKey(EmptyDict, "add", <<>>), "rem", <<>>)

BodyWatchers(b) == IF "watchers" \in DOMAIN b THEN b["watchers"] ELSE NoWatchers

\* a membership test that finds nothing
Contains_Never(xs, x) == FALSE

\* lines 421 and 431: x in xs compares with ==, and True == 1
Contains(xs, x) == \E i \in DOMAIN xs : AsInt(xs[i]) = AsInt(x)

\* the watchers dict after user_id went to the list at key k
Watched(w, k, user_id) ==
    IF Contains(w[k], user_id) THEN w ELSE SetKey(w, k, Append(w[k], user_id))

add_watcher(user_id) ==
    /\ body' = SetKey(body, "watchers", Watched(BodyWatchers(body), "add", user_id))
    /\ last' = Call("add_watcher", user_id, Ok, <<>>)
    /\ tick' = ~tick
    /\ UNCHANGED <<id, list_id, valid_CustomFields_ids, customFields, validStatuses,
                   space_id, tags, created, fetched>>

remove_watcher(user_id) ==
    /\ body' = SetKey(body, "watchers", Watched(BodyWatchers(body), "rem", user_id))
    /\ last' = Call("remove_watcher", user_id, Ok, <<>>)
    /\ tick' = ~tick
    /\ UNCHANGED <<id, list_id, valid_CustomFields_ids, customFields, validStatuses,
                   space_id, tags, created, fetched>>

(***************************************************************************)
(* Inputs of the reference-data operations.                                *)
(***************************************************************************)
Open == Str(<<"open">>)

Five == Str(<<"5">>)

Both == {"status", "orderindex"}

\* payloads of a 200 answer to the list request of get_statuses
StatusPayloads ==
    { <<>>,
      << <<>> >>,
      << <<StatusEntry(Both, Open, 0)>> >>,
      << <<StatusEntry(Both, Open, 0), StatusEntry(Both, Five, 1)>> >>,
      << <<StatusEntry(Both, Open, 0), StatusEntry(Both, PyInt(<<"5">>), 1)>> >>,
      << <<StatusEntry(Both, Open, 0), StatusEntry({"status"}, Five, 1)>> >> }

StatusResps ==
    {Resp(TRUE, 0, <<>>), Resp(FALSE, 404, <<>>)} \cup {Resp(FALSE, 200, d) : d \in StatusPayloads}

StatusArgs == {Open, Five, PyInt(<<"5">>), Str(<<"bogus">>)}

F1 == Str(<<"f1">>)

F2 == Str(<<"f2">>)

F3 == Str(<<"f3">>)

Hello == Str(<<"hello">>)

FieldPayloads == { <<>>, << <<>> >>, << <<F1>> >>, << <<F1, F2>> >> }

FieldResps ==
    {Resp(TRUE, 0, <<>>), Resp(FALSE, 404, <<>>)} \cup {Resp(FALSE, 200, d) : d \in FieldPayloads}

Dict(items) == DictArg(TRUE, items)

NotADict == DictArg(FALSE, <<>>)

FieldArgs ==
    { NotADict, Dict(<<>>),
      Dict(<<Entry(F1, Hello)>>), Dict(<<Entry(F2, Hello)>>), Dict(<<Entry(F3, Hello)>>),
      Dict(<<Entry(F1, PyInt(<<"5">>))>>),
      Dict(<<Entry(F1, Hello), Entry(F2, Hello)>>),
      Dict(<<Entry(F1, Hello), Entry(F3, Hello)>>) }

S1 == Str(<<"S1">>)

TagA == Str(<<"tagA">>)

TaskListResps ==
    {Resp(TRUE, 0, PyNone), Resp(FALSE, 404, PyNone)}
        \cup {Resp(FALSE, 200, l) : l \in {PyNone, Str(<<"L", "1">>)}}

SpaceResps ==
    {Resp(TRUE, 0, PyNone), Resp(FALSE, 404, PyNone)}
        \cup {Resp(FALSE, 200, x) : x \in {PyNone, S1}}

TagResps ==
    {Resp(TRUE, 0, <<>>), Resp(FALSE, 404, <<>>)}
        \cup {Resp(FALSE, 200, x) : x \in {<<>>, <<TagA>>}}

TagArgs == {TagA, PyInt(<<"5">>)}

One == PyInt(<<"1">>)

Two == PyInt(<<"2">>)

PyTrue == PyBool(<<"True">>)

\* the elements a caller puts in a collection of assignees
Assignees == {One, Two, Str(<<"a">>)}

MaxAssignees == 2

\* the sequences of at most MaxAssignees elements; those of a set are distinct
AssigneeSeqs == UNION {[1..n -> Assignees] : n \in 0..MaxAssignees}

Distinct(xs) == \A i, j \in DOMAIN xs : i # j => AsInt(xs[i]) # AsInt(xs[j])

AssigneeArgs ==
    Assignees \cup {PyTrue, PyNone, PyDict(<<>>), PyList(<<PyTrue, One>>)}
        \cup {PyList(xs) : xs \in AssigneeSeqs}
        \cup {PyTuple(xs) : xs \in AssigneeSeqs}
        \cup {PySet(xs) : xs \in {ys \in AssigneeSeqs : Distinct(ys)}}

\* one day, in milliseconds
Day == 86400000

\* a millisecond around which the calls are made
Base == Day + 2

\* the time arguments: more than a day before Base, just before it, Base itself
\* and just after it
Times == {Base - Day - 1, Base - 1, Base, Base + 1}

\* what datetime.now() reads: the instant of Base, the one before and the one after
Clock == {FromTimestamp(Base) + d : d \in -1..1}

\* the task ids a caller refers to: as a str, as an int, and None
RefArgs == TaskIds \cup {One, Two, PyNone}

\* payloads of a 200 answer whose statuses may lack order index 0
FirstStatusPayloads ==
    { <<>>,
      << <<>> >>,
      << <<StatusEntry(Both, Open, 0)>> >>,
      << <<StatusEntry(Both, Five, 1)>> >>,
      << <<StatusEntry(Both, Five, 1), StatusEntry(Both, Open, 0)>> >>,
      << <<StatusEntry({"status"}, Open, 0)>> >> }

FirstStatusResps ==
    {Resp(TRUE, 0, <<>>), Resp(FALSE, 404, <<>>)}
        \cup {Resp(FALSE, 200, d) : d \in FirstStatusPayloads}

\* the elements a caller puts in a collection of tags
TagElems == {TagA, One}

TagSeqs == UNION {[1..n -> TagElems] : n \in 0..MaxTags}

TagsArgs ==
    TagElems \cup {PyNone}
        \cup {PyList(xs) : xs \in TagSeqs}
        \cup {PyTuple(xs) : xs \in TagSeqs}
        \cup {PySet(xs) : xs \in {ys \in TagSeqs : Distinct(ys)}}

\* the user ids a caller passes
UserIds == {One, Two, PyTrue, Str(<<"u">>)}

\* a remote service whose lists are fixed: the statuses and the field ids of
\* each list, as the 200 answers to its list and field requests give them
ListStatuses(l) ==
    IF l = Str(<<"L", "1">>) THEN << <<StatusEntry(Both, Open, 0)>> >>
    ELSE << <<StatusEntry(Both, Five, 0)>> >>

ListFields(l) == IF l = Str(<<"L", "1">>) THEN << <<F1>> >> ELSE << <<F2>> >>

\* the answers to a request about list l: a failure or, when l is a list,
\* the list's data
StatusAnswers(l) ==
    {Resp(FALSE, 404, <<>>)} \cup {Resp(FALSE, 200, ListStatuses(x)) : x \in ListIds \cap {l}}

FieldAnswers(l) ==
    {Resp(FALSE, 404, <<>>)} \cup {Resp(FALSE, 200, ListFields(x)) : x \in ListIds \cap {l}}

OneFieldArgs == {Dict(<<Entry(F1, Hello)>>), Dict(<<Entry(F2, Hello)>>)}

(***************************************************************************)
(* Calls.  A response is drawn only for a request the call issues; a call  *)
(* that issues none gets the placeholder NoResp, which it never reads.     *)
(***************************************************************************)
NoResp == Resp(TRUE, 0, PyNone)

Asked(issued, resps) == IF issued THEN resps ELSE {NoResp}

CallAddTask(args, resps) ==
    \E arg \in args :
        \E resp \in Asked(/\ ~NoList(RebindList(list_id, arg))
                          /\ ~AlreadyCreated(id)
                          /\ ~NameMissing(body), resps) :
            add_task(arg, resp)

CallAddName(names) == \E name \in names : add_name(name)

CallUpdateTask(resps) == \E resp \in Asked(~NoTaskId(id), resps) : update_task(resp)

CallAddAttachment(resps) ==
    \E hasRead \in BOOLEAN :
        \E resp \in Asked(hasRead /\ ~TaskIdNotSet(id), resps) : add_attachment(hasRead, resp)

CallGetStatuses(resps) == \E resp \in Asked(~IsNone(list_id), resps) : get_statuses(resp)

CallAddStatus(args, resps) ==
    \E status \in args :
        \E resp \in Asked(NoStatuses(validStatuses) /\ ~IsNone(list_id), resps) :
            add_status(status, resp)

CallGetCustomFields(resps) == \E resp \in resps : get_customFields(resp)

CallAddCustomFields(args, resps) ==
    \E arg \in args :
        \E resp \in Asked(arg.isdict /\ IdsUnknown(valid_CustomFields_ids), resps) :
            add_customFields(arg, resp)

CallGetSpaceId(resps1, resps2) ==
    \E r1 \in Asked(IsNone(list_id) /\ ~IsNone(id), resps1) :
        \E r2 \in Asked(~IsNone(list_id) \/ ~IsNone(id), resps2) :
            get_space_id(r1, r2)

CallGetSpaceTags(resps1, resps2, resps3) ==
    \E r1 \in Asked(NoSpaceId(space_id) /\ IsNone(list_id) /\ ~IsNone(id), resps1) :
        \E r2 \in Asked(NoSpaceId(space_id) /\ (~IsNone(list_id) \/ ~IsNone(id)), resps2) :
            \E r3 \in resps3 :
                get_space_tags(r1, r2, r3)

CallAddTag(args, resps1, resps2, resps3) ==
    \E tag_name \in args :
        \E r1 \in Asked(/\ NoTags(tags) /\ NoSpaceId(space_id)
                        /\ IsNone(list_id) /\ ~IsNone(id), resps1) :
            \E r2 \in Asked(/\ NoTags(tags) /\ NoSpaceId(space_id)
                            /\ (~IsNone(list_id) \/ ~IsNone(id)), resps2) :
                \E r3 \in Asked(NoTags(tags), resps3) :
                    add_tag(tag_name, r1, r2, r3)

CallAddAssignees(args) ==
    \E assignees \in args :
        \E listed \in (IF assignees.t \in {"set", "tuple", "list"}
                        THEN ListOf(assignees) ELSE {<<>>}) :
            add_assignees(assignees, listed)

CallAddDueDate(times, clock) ==
    \E time \in times, specify_time \in BOOLEAN, current_time \in clock :
        add_dueDate(time, specify_time, current_time)

CallAddStartDate(times, clock) ==
    \E time \in times, specify_time \in BOOLEAN, current_time \in clock :
        add_startDate(time, specify_time, current_time)

CallAddParent(args, resps) ==
    \E task_id \in args :
        \E resp \in Asked(IsStr(task_id), resps) : add_parent(task_id, resp)

CallAddLinksTo(args, resps) ==
    \E task_id \in args :
        \E resp \in Asked(IsInstanceInt(task_id), resps) : add_linksTo(task_id, resp)

CallGetFirstStatus(resps) ==
    \E resp \in Asked(NoStatuses(validStatuses) /\ ~IsNone(list_id), resps) :
        get_first_status(resp)

CallAddTags(args) ==
    \E tg \in args :
        \E listed \in (IF tg.t \in {"set", "tuple", "list"} THEN ListOf(tg) ELSE {<<>>}) :
            add_tags(tg, listed)

CallAddWatcher(args) == \E user_id \in args : add_watcher(user_id)

CallRemoveWatcher(args) == \E user_id \in args : remove_watcher(user_id)

(***************************************************************************)
(* Spec: the lifecycle of a draft.  The caller may invoke any operation at *)
(* any time; the setters and fetches that fill the body and the caches     *)
(* take one argument and one good answer each.                             *)
(***************************************************************************)
OneStatus == {Resp(FALSE, 404, <<>>), Resp(FALSE, 200, << <<StatusEntry(Both, Open, 0)>> >>)}

OneField == {Resp(FALSE, 404, <<>>), Resp(FALSE, 200, << <<F1>> >>)}

ListArgs == ListIds \cup {PyNone}

OneStatusArg == {Open}

OneFieldArg == {Dict(<<Entry(F1, Hello)>>)}

OneTagArg == {TagA}

Next ==
    \/ CallAddTask(ListArgs, CreateResps)
    \/ CallAddName(NameArgs)
    \/ clear_task
    \/ CallUpdateTask(PlainResps)
    \/ CallAddAttachment(PlainResps)
    \/ CallAddStatus(OneStatusArg, OneStatus)
    \/ CallAddCustomFields(OneFieldArg, OneField)
    \/ CallGetSpaceId(TaskListResps, SpaceResps)

Spec == Init /\ [][Next]_vars

(***************************************************************************)
(* Properties of the lifecycle, checked under Spec.  A step of Spec is one *)
(* call: the unprimed variables are the draft before the call, last' tells *)
(* which call it was, how it ended and which requests it issued.           *)
(***************************************************************************)
Failed(c) == c.out.exc # "none"

AlreadyCreatedError == ValueError("Task already created.")

NameMissingError ==
    ValueError("Task creation failed: 'name' is missing or empty in the task body.")

\* C1: once an add_task call has succeeded, every later add_task call fails
\* with 'Task already created.' and issues no request, whatever the body and
\* whatever list_id argument
C1_SecondCreateFails ==
    [][(~IsNone(created) /\ last'.op = "add_task")
         => (last'.out = AlreadyCreatedError /\ last'.reqs = <<>>)]_vars

\* a second add_task, with a list_id argument, was rejected on a created draft
C1_Witness ==
    /\ ~IsNone(created)
    /\ last.op = "add_task"
    /\ ~IsNone(last.arg)
    /\ last.out = AlreadyCreatedError

\* C2: with identity unset, update_task and add_attachment fail, issue no
\* request and leave the draft unchanged
C2_NeedsIdentity ==
    [][(IsNone(id) /\ last'.op \in {"update_task", "add_attachment"})
         => (Failed(last') /\ last'.reqs = <<>> /\ draft' = draft)]_vars

\* add_attachment with a readable stream was rejected on a draft without identity
C2_Witness ==
    /\ IsNone(id)
    /\ last.op = "add_attachment"
    /\ IsStr(last.arg)
    /\ last.out = ValueError("Task ID is not set. Create the task first.")

\* C3: identity is unset until an add_task call succeeds, then equals the id
\* of that create response, and never changes afterwards
C3_IdentityIsCreatedId == id = created

\* C4 as amended: with no name in the body, or a name that is empty or all
\* whitespace, add_task fails and issues no request; the error is the 'name
\* missing or empty' one whenever a list is bound (by the constructor or the
\* argument) and identity is unset
Blank(v) == \A i \in DOMAIN v.s : v.s[i] \in {" ", "\t", "\n"}

NoUsableName(b) == "name" \notin DOMAIN b \/ Blank(b["name"])

ListGiven(arg) == ~IsNone(arg) \/ ~IsNone(list_id)

C4_NamelessCreateFails ==
    [][(NoUsableName(body) /\ last'.op = "add_task")
         => /\ Failed(last')
            /\ last'.reqs = <<>>
            /\ (ListGiven(last'.arg) /\ IsNone(id)) => last'.out = NameMissingError]_vars

\* add_task was rejected for a whitespace-only name
C4_Witness ==
    /\ last.op = "add_task"
    /\ last.out = NameMissingError
    /\ "name" \in DOMAIN body
    /\ body["name"] = Str(<<" ">>)

\* C4 as stated: the failure is always the 'name missing or empty' error
C4_Original ==
    [][(NoUsableName(body) /\ last'.op = "add_task")
         => (last'.out = NameMissingError /\ last'.reqs = <<>>)]_vars

\* C5: add_task issues exactly one create request when a list is bound,
\* identity is unset and the name is present and not blank; in every other
\* state it fails and issues no request
C5_OneCreateRequest ==
    [][last'.op = "add_task"
         => IF ListGiven(last'.arg) /\ IsNone(id) /\ ~NoUsableName(body)
            THEN /\ Len(last'.reqs) = 1
                 /\ last'.reqs[1].m = "POST"
                 /\ last'.reqs[1].path = "list/_/task"
                 /\ last'.reqs[1].target = list_id'
                 /\ last'.reqs[1].json = body
            ELSE Failed(last') /\ last'.reqs = <<>>]_vars

\* a create request went out to the list given as argument on a draft built
\* without a list
C5_Witness ==
    /\ last.op = "add_task"
    /\ Len(last.reqs) = 1
    /\ ~IsNone(last.arg)
    /\ last.reqs[1].target = last.arg
    /\ last.out = Ok

\* C6: a failed add_task or update_task leaves the draft as it was
C6_NoPartialSuccess ==
    [][(last'.op \in {"add_task", "update_task"} /\ Failed(last')) => draft' = draft]_vars

\* C7: once the task is created no operation changes list_id
C7_ListBindingFrozen == [][~IsNone(created) => list_id' = list_id]_vars

\* C11: clear_task resets body and customFields to empty and leaves id,
\* list_id, the status cache, the custom-field-id cache, the space id and the
\* space tags as they were
C11_ClearTaskFrame ==
    [][last'.op = "clear_task"
         => /\ body' = EmptyBody
            /\ customFields' = <<>>
            /\ id' = id
            /\ list_id' = list_id
            /\ validStatuses' = validStatuses
            /\ valid_CustomFields_ids' = valid_CustomFields_ids
            /\ space_id' = space_id
            /\ tags' = tags]_vars

\* clear_task ran on a created draft whose status, field-id and space caches
\* were populated
C11_Witness ==
    /\ last.op = "clear_task"
    /\ body = EmptyBody
    /\ customFields = <<>>
    /\ ~IsNone(created)
    /\ HasAttr(validStatuses)
    /\ valid_CustomFields_ids # <<>>
    /\ HasAttr(space_id)

NamelessInit == Init /\ "name" \notin DOMAIN body

StatusNext ==
    \/ CallGetStatuses(StatusResps)
    \/ CallAddStatus(StatusArgs, StatusResps)
    \/ CallAddTask(ListArgs, CreateResps)
    \/ clear_task

StatusSpec == NamelessInit /\ [][StatusNext]_vars

\* a 200 answer whose statuses all carry a str name and an order index
WellFormed(resp) ==
    /\ ~resp.exc
    /\ resp.code = 200
    /\ resp.data # <<>>
    /\ \A i \in DOMAIN resp.data[1] :
           /\ resp.data[1][i].keys = {"status", "orderindex"}
           /\ resp.data[1][i].status.t = "str"

AnsweredNames(resp) == {resp.data[1][i].status : i \in DOMAIN resp.data[1]}

CachedNames(vs) == {vs[1][k] : k \in DOMAIN vs[1]}

AsText(v) == PyValue("str", v.s)

StatusRequest(rq, l) == rq.m = "GET" /\ rq.path = "list/_" /\ rq.target = l

\* C8: add_status(X) fetches the list's statuses when the cache is absent (one
\* request, none otherwise); it fails and leaves the body unchanged when no
\* list is bound, when the fetch fails, or when str(X) is not among the
\* fetched names; it writes body.status = X when X is among them
C8_AddStatus ==
    [][\A status \in StatusArgs, resp \in StatusResps \cup {NoResp} :
         add_status(status, resp) =>
           LET absent == validStatuses = <<>>
               bound == list_id.t # "NoneType"
               names == IF absent THEN AnsweredNames(resp) ELSE CachedNames(validStatuses)
           IN  /\ (absent /\ bound) =>
                     (Len(last'.reqs) = 1 /\ StatusRequest(last'.reqs[1], list_id))
               /\ (~absent \/ ~bound) => last'.reqs = <<>>
               /\ IF ~bound \/ (absent /\ ~WellFormed(resp))
                  THEN Failed(last') /\ body' = body
                  ELSE /\ AsText(status) \notin names => (Failed(last') /\ body' = body)
                       /\ status \in names =>
                              /\ last'.out = Ok
                              /\ "status" \in DOMAIN body'
                              /\ body'["status"] = status
                              /\ \A k \in DOMAIN body \ {"status"} :
                                     k \in DOMAIN body' /\ body'[k] = body[k]]_vars

\* add_status fetched the statuses itself and wrote the status it was given
C8_Witness ==
    /\ last.op = "add_status"
    /\ Len(last.reqs) = 1
    /\ last.out = Ok
    /\ "status" \in DOMAIN body
    /\ body["status"] = last.arg

\* C18: in every reachable state a status in the body is one of the names
\* the status cache holds
C18_StatusInCache ==
    "status" \in DOMAIN body
        => (validStatuses # <<>> /\ body["status"] \in CachedNames(validStatuses))

\* C22: a get_statuses call that fails leaves the status cache as it was
C22_FailedFetchKeepsCache ==
    [][(last'.op = "get_statuses" /\ Failed(last')) => validStatuses' = validStatuses]_vars

(***************************************************************************)
(* FieldSpec: the custom-field operations on a draft without a name.       *)
(***************************************************************************)
FieldNext ==
    \/ CallAddCustomFields(FieldArgs, FieldResps)
    \/ CallGetCustomFields(FieldResps)
    \/ clear_task

FieldSpec == NamelessInit /\ [][FieldNext]_vars

FieldRequest(rq, l) == rq.m = "GET" /\ rq.path = "list/_/field" /\ rq.target = l

\* a 200 answer with a "fields" key
FieldsAnswered(resp) == ~resp.exc /\ resp.code = 200 /\ resp.data # <<>>

Acceptable(e, ids) == e.value.t = "str" /\ \E i \in DOMAIN ids : ids[i] = e.id

\* the items before the first one that is not acceptable
AcceptedPrefix(items, ids) ==
    LET bad == {i \in DOMAIN items : ~Acceptable(items[i], ids)}
        n == IF bad = {} THEN Len(items) ELSE (CHOOSE i \in bad : \A j \in bad : i <= j) - 1
    IN  SubSeq(items, 1, n)

\* what a call does with its items, validated against ids
Validated(arg, ids) ==
    /\ customFields' = customFields \o AcceptedPrefix(arg.items, ids)
    /\ (last'.out = Ok) <=> (\A i \in DOMAIN arg.items : Acceptable(arg.items[i], ids))
    /\ last'.out = Ok => ("custom_fields" \in DOMAIN body' /\ body'["custom_fields"] = customFields')

\* C9 as amended: add_customFields called with a dict while the id cache is
\* unpopulated issues exactly one fetch; if that fetch succeeds the cache is
\* populated and each entry is accepted iff its id is in the fetched set and
\* its value is a string (a rejected entry ends the call); if it fails the call
\* fails and the cache stays unpopulated.  Once the cache is populated every
\* call validates against it and issues no fetch.  A non-dict argument is
\* rejected before any fetch.
C9_AddCustomFields ==
    [][\A arg \in FieldArgs, resp \in FieldResps \cup {NoResp} :
         add_customFields(arg, resp) =>
           IF ~arg.isdict
           THEN Failed(last') /\ last'.reqs = <<>> /\ draft' = draft
           ELSE IF valid_CustomFields_ids = <<>>
           THEN /\ Len(last'.reqs) = 1
                /\ FieldRequest(last'.reqs[1], list_id)
                /\ IF FieldsAnswered(resp)
                   THEN /\ valid_CustomFields_ids' = resp.data
                        /\ Validated(arg, resp.data[1])
                   ELSE Failed(last') /\ draft' = draft
           ELSE /\ last'.reqs = <<>>
                /\ valid_CustomFields_ids' = valid_CustomFields_ids
                /\ Validated(arg, valid_CustomFields_ids[1])]_vars

\* the cache was unpopulated, one fetch went out and the entry was accepted
C9_Witness ==
    /\ last.op = "add_customFields"
    /\ Len(last.reqs) = 1
    /\ last.out = Ok
    /\ valid_CustomFields_ids # <<>>
    /\ customFields = last.arg.items
    /\ Len(customFields) = 1

\* C9 as stated: a call made while the cache is unpopulated issues exactly one
\* fetch, and every add_customFields call after such a call issues none
C9_Original ==
    [][last'.op = "add_customFields" =>
         /\ (valid_CustomFields_ids = <<>> /\ last'.arg.isdict) => Len(last'.reqs) = 1
         /\ (last.op = "add_customFields" /\ last.arg.isdict) => last'.reqs = <<>>]_vars

\* C19: in every reachable state customFields is non-empty exactly when the
\* body has custom_fields, and then body.custom_fields is the whole of
\* customFields
C19_FieldsMirrored ==
    /\ customFields # <<>> <=> "custom_fields" \in DOMAIN body
    /\ "custom_fields" \in DOMAIN body => body["custom_fields"] = customFields

(***************************************************************************)
(* CacheSpec: every operation that fetches reference data, each with one   *)
(* argument, on a draft without a name.                                    *)
(***************************************************************************)
CacheNext ==
    \/ CallGetStatuses(OneStatus)
    \/ CallAddStatus(OneStatusArg, OneStatus)
    \/ CallGetCustomFields(OneField)
    \/ CallAddCustomFields(OneFieldArg, OneField)
    \/ CallGetSpaceId(TaskListResps, SpaceResps)
    \/ CallGetSpaceTags(TaskListResps, SpaceResps, TagResps)
    \/ CallAddTag(OneTagArg, TaskListResps, SpaceResps, TagResps)

CacheSpec == NamelessInit /\ [][CacheNext]_vars

\* the reference data a request fetches: the request for the task of
\* get_space_id resolves the list and fetches none
Fetches(rq) == IF rq.path = "task/_" THEN {} ELSE {rq.fn}

\* C10: reference data that has been fetched is never requested again
C10_FetchedAtMostOnce ==
    [][\A i \in DOMAIN last'.reqs : Fetches(last'.reqs[i]) \cap fetched = {}]_vars

(***************************************************************************)
(* AssigneeSpec: add_assignees on a draft without a name.                  *)
(***************************************************************************)
AssigneeNext ==
    \/ CallAddAssignees(AssigneeArgs)
    \/ clear_task

AssigneeSpec == NamelessInit /\ [][AssigneeNext]_vars

IsInteger(v) == v.t = "int" \/ v.t = "bool"

IsCollection(v) == v.t = "list" \/ v.t = "tuple" \/ v.t = "set"

\* the integers given, in the order given
Given(a) == IF IsCollection(a) THEN a.s ELSE <<a>>

Elements(xs) == {xs[i] : i \in DOMAIN xs}

OthersKept(k) == \A x \in DOMAIN body \ {k} : x \in DOMAIN body' /\ body'[x] = body[x]

\* C13 as amended: add_assignees given one integer, or a list or tuple of
\* integers, writes body.assignees as these integers in the order given; given
\* a set of integers it writes a sequence holding each of them once, in some
\* order; given a list, tuple or set with an element that is not an integer
\* it fails with a ValueError and leaves the body unchanged
C13_AddAssignees ==
    [][last'.op = "add_assignees" =>
         LET a == last'.arg IN
         /\ (IsInteger(a) \/ (IsCollection(a) /\ \A x \in Elements(a.s) : IsInteger(x)))
               => /\ last'.out = Ok
                  /\ "assignees" \in DOMAIN body'
                  /\ a.t # "set" => body'["assignees"] = Given(a)
                  /\ a.t = "set" => /\ Len(body'["assignees"]) = Len(a.s)
                                    /\ Elements(body'["assignees"]) = Elements(a.s)
                  /\ OthersKept("assignees")
         /\ (IsCollection(a) /\ \E x \in Elements(a.s) : ~IsInteger(x))
               => /\ last'.out.exc = "ValueError"
                  /\ body' = body]_vars

\* a set of two integers was written in another order than the caller's
C13_Witness ==
    /\ last.op = "add_assignees"
    /\ last.arg.t = "set"
    /\ Len(last.arg.s) = 2
    /\ last.out = Ok
    /\ body["assignees"] # last.arg.s

\* C13 as stated: a set of integers too is written in the order given
C13_Original ==
    [][last'.op = "add_assignees" =>
         LET a == last'.arg IN
         /\ (IsInteger(a) \/ (IsCollection(a) /\ \A x \in Elements(a.s) : IsInteger(x)))
               => /\ last'.out = Ok
                  /\ "assignees" \in DOMAIN body'
                  /\ body'["assignees"] = Given(a)
         /\ (IsCollection(a) /\ \E x \in Elements(a.s) : ~IsInteger(x))
               => /\ last'.out.exc = "ValueError"
                  /\ body' = body]_vars

(***************************************************************************)
(* DateSpec: the date setters on a draft without a name.                   *)
(***************************************************************************)
DateNext ==
    \/ CallAddDueDate(Times, Clock)
    \/ CallAddStartDate(Times, Clock)
    \/ clear_task

DateSpec == NamelessInit /\ [][DateNext]_vars

KeptBut(ks) == \A x \in DOMAIN body \ ks : x \in DOMAIN body' /\ body'[x] = body[x]

\* the call wrote the two keys of a date and nothing else
Wrote(k, time, specify_time) ==
    /\ last'.out = Ok
    /\ DOMAIN body' = DOMAIN body \cup {k, k \o "_time"}
    /\ body'[k] = time
    /\ body'[k \o "_time"] = specify_time
    /\ KeptBut({k, k \o "_time"})

\* C14: add_dueDate(t) fails with a ValueError and leaves the body unchanged
\* when t is at or before the instant the clock reads in the call; when t is
\* after it the call succeeds and writes due_date = t, due_date_time =
\* specify_time
C14_DueDate ==
    [][\A time \in Times, specify_time \in BOOLEAN, current_time \in Clock :
         add_dueDate(time, specify_time, current_time) =>
           IF time * Resolution <= current_time
           THEN last'.out.exc = "ValueError" /\ body' = body
           ELSE Wrote("due_date", time, specify_time)]_vars

\* a due date after the clock's reading was written with specify_time set
C14_Witness ==
    /\ last.op = "add_dueDate"
    /\ last.out = Ok
    /\ body["due_date"] = last.arg[1]
    /\ body["due_date"] = Base + 1
    /\ body["due_date_time"] = TRUE

\* C15: add_startDate(t) succeeds, writing start_date = t and start_date_time
\* = specify_time, when t is in the future or at most one day in the past; it
\* fails with a ValueError when t is more than one day in the past; it ends in
\* no other way
C15_StartDate ==
    [][\A time \in Times, specify_time \in BOOLEAN, current_time \in Clock :
         add_startDate(time, specify_time, current_time) =>
           IF current_time - time * Resolution <= Day * Resolution
           THEN Wrote("start_date", time, specify_time)
           ELSE last'.out.exc = "ValueError" /\ body' = body]_vars

(***************************************************************************)
(* RefSpec: the setters that refer to another task, on a draft without a   *)
(* name.                                                                   *)
(***************************************************************************)
RefNext ==
    \/ CallAddParent(RefArgs, PlainResps)
    \/ CallAddLinksTo(RefArgs, PlainResps)
    \/ clear_task

RefSpec == NamelessInit /\ [][RefNext]_vars

\* the call issued one probe of task_id, wrote it at key k if the probe found
\* the task, and failed with a ValueError leaving the body unchanged if not
Probed(k, task_id, resp) ==
    /\ Len(last'.reqs) = 1
    /\ last'.reqs[1].m = "GET"
    /\ last'.reqs[1].path = "task/_"
    /\ last'.reqs[1].target = task_id
    /\ IF ~resp.exc /\ resp.code = 200
       THEN /\ last'.out = Ok
            /\ DOMAIN body' = DOMAIN body \cup {k}
            /\ body'[k] = task_id
            /\ KeptBut({k})
       ELSE /\ last'.out.exc = "ValueError"
            /\ body' = body

\* C16: every add_parent and add_linksTo call probes the task it is given,
\* writes body.parent / body.links_to when the probe finds it, and fails with
\* a ValueError, body unchanged, when the probe does not find it or fails; no
\* call returns without having written the field
C16_ProbeThenWrite ==
    [][\A task_id \in RefArgs, resp \in PlainResps :
         /\ add_parent(task_id, resp) => Probed("parent", task_id, resp)
         /\ add_linksTo(task_id, resp) => Probed("links_to", task_id, resp)]_vars

(***************************************************************************)
(* FirstStatusSpec: get_first_status and get_statuses on a draft without a *)
(* name; add_task is there to rebind the list.                             *)
(***************************************************************************)
FirstStatusNext ==
    \/ CallGetFirstStatus(FirstStatusResps)
    \/ CallGetStatuses(FirstStatusResps)
    \/ CallAddTask(ListArgs, PlainResps)

FirstStatusSpec == NamelessInit /\ [][FirstStatusNext]_vars

\* the names a well-formed answer gives at order index 0
AnsweredAtZero(resp) ==
    {resp.data[1][i].status : i \in {j \in DOMAIN resp.data[1] : resp.data[1][j].orderindex = 0}}

\* the names the cache holds at order index 0
CachedAtZero(vs) == {vs[1][k] : k \in DOMAIN vs[1] \cap {0}}

\* C17: get_first_status, fetching the statuses when the cache is absent,
\* returns the name at order index 0; with a well-formed answer (or a cache)
\* that has no entry at order index 0 it fails with a ValueError, and it fails
\* in no other way
C17_FirstStatus ==
    [][\A resp \in FirstStatusResps \cup {NoResp} :
         get_first_status(resp) =>
           LET absent == validStatuses = <<>>
               first == IF absent THEN AnsweredAtZero(resp) ELSE CachedAtZero(validStatuses)
           IN  (~absent \/ (list_id.t # "NoneType" /\ WellFormed(resp))) =>
                  IF first # {}
                  THEN last'.out.exc = "none" /\ last'.out.msg \in first
                  ELSE last'.out.exc = "ValueError"]_vars

(***************************************************************************)
(* TagSpec: add_tags and add_tag on a draft without a name.                *)
(***************************************************************************)
TagNext ==
    \/ CallAddTags(TagsArgs)
    \/ CallAddTag(TagArgs, TaskListResps, SpaceResps, TagResps)
    \/ clear_task

TagSpec == NamelessInit /\ [][TagNext]_vars

\* body.tags, the empty sequence when the body has none
TagsOf(b) == IF "tags" \in DOMAIN b THEN b["tags"] ELSE <<>>

\* the text of each element, in order
Texts(xs) == [i \in DOMAIN xs |-> IF xs[i].t = "NoneType" THEN Str(<<"N", "o", "n", "e">>)
                                  ELSE PyValue("str", xs[i].s)]

\* C20: a successful add_tags replaces body.tags by the stringified value it
\* was given (for a set, in some order), a successful add_tag appends its name
\* to body.tags, a failed call of either leaves body.tags as it was and
\* clear_task empties it: body.tags is at any time what the last successful
\* add_tags wrote, or nothing, followed by the names of the later successful
\* add_tag calls in call order
C20_TagsReplaceThenAppend ==
    [][LET a == last'.arg IN
       /\ (last'.op = "add_tags" /\ last'.out = Ok) =>
             /\ "tags" \in DOMAIN body'
             /\ a.t = "str" => body'["tags"] = <<a>>
             /\ a.t \in {"list", "tuple"} => body'["tags"] = Texts(a.s)
             /\ a.t = "set" => /\ Len(body'["tags"]) = Len(a.s)
                               /\ Elements(body'["tags"]) = Elements(Texts(a.s))
       /\ (last'.op = "add_tag" /\ last'.out = Ok) =>
             /\ "tags" \in DOMAIN body'
             /\ body'["tags"] = TagsOf(body) \o <<a>>
       /\ (last'.op \in {"add_tags", "add_tag"} /\ last'.out # Ok) => body' = body
       /\ last'.op = "clear_task" => TagsOf(body') = <<>>
       /\ last'.op \in {"add_tags", "add_tag"} => KeptBut({"tags"})]_vars

\* add_tag appended its name to the stringified list that add_tags had written
C20_Witness ==
    /\ last.op = "add_tag"
    /\ last.out = Ok
    /\ "tags" \in DOMAIN body
    /\ body["tags"] = <<Str(<<"1">>), TagA>>

(***************************************************************************)
(* WatcherSpec: add_watcher and remove_watcher on a draft without a name.  *)
(***************************************************************************)
WatcherNext ==
    \/ CallAddWatcher(UserIds)
    \/ CallRemoveWatcher(UserIds)
    \/ clear_task

WatcherSpec == NamelessInit /\ [][WatcherNext]_vars

\* body.watchers[k], nothing when the body has no watchers
WatchersOf(b, k) == IF "watchers" \in DOMAIN b THEN b["watchers"][k] ELSE <<>>

\* two values that are the same user id: equal as Python compares them
SameId(x, y) ==
    LET n(v) == IF v = PyValue("bool", <<"True">>) THEN PyValue("int", <<"1">>) ELSE v
    IN  n(x) = n(y)

NoDuplicate(xs) == \A i, j \in DOMAIN xs : i # j => ~SameId(xs[i], xs[j])

\* the list with x at its end if x is not in it yet
WithFirst(xs, x) == IF \E i \in DOMAIN xs : SameId(xs[i], x) THEN xs ELSE xs \o <<x>>

\* C21: add_watcher(u) appends u to body.watchers.add unless it is there
\* already and leaves body.watchers.rem alone, remove_watcher(u) does the
\* same with rem and add exchanged; so each list is free of duplicates and
\* holds the ids in the order of their first call
C21_WatchersOrderedSets ==
    [][/\ last'.op = "add_watcher" =>
             /\ WatchersOf(body', "add") = WithFirst(WatchersOf(body, "add"), last'.arg)
             /\ WatchersOf(body', "rem") = WatchersOf(body, "rem")
       /\ last'.op = "remove_watcher" =>
             /\ WatchersOf(body', "rem") = WithFirst(WatchersOf(body, "rem"), last'.arg)
             /\ WatchersOf(body', "add") = WatchersOf(body, "add")
       /\ NoDuplicate(WatchersOf(body', "add"))
       /\ NoDuplicate(WatchersOf(body', "rem"))]_vars

\* a second add_watcher of the first id left the list of two as it was
C21_Witness ==
    /\ last.op = "add_watcher"
    /\ last.arg = One
    /\ WatchersOf(body, "add") = <<One, Two>>
    /\ WatchersOf(body, "rem") # <<>>

(***************************************************************************)
(* RebindSpec: a named draft against a remote service whose lists are      *)
(* fixed.  add_status and add_customFields fetch from the list bound at    *)
(* their call; add_task may rebind the list.                               *)
(***************************************************************************)
NamedInit == Init /\ "name" \in DOMAIN body /\ body["name"] = Str(<<"T">>)

RebindNext ==
    \/ CallAddStatus({Open, Five}, StatusAnswers(list_id))
    \/ CallAddCustomFields(OneFieldArgs, FieldAnswers(list_id))
    \/ CallAddTask(ListArgs, CreateResps)
    \/ clear_task

RebindSpec == NamedInit /\ [][RebindNext]_vars

StatusesOfList(l) == {ListStatuses(l)[1][i].status : i \in DOMAIN ListStatuses(l)[1]}

FieldIdsOfList(l) == {ListFields(l)[1][i] : i \in DOMAIN ListFields(l)[1]}

\* C23: when add_task issues the create request for list L, the status in
\* the body it sends is a status of L and every custom field id in it is a
\* field id of L
C23_CreateMatchesList ==
    [][(last'.op = "add_task" /\ last'.reqs # <<>>) =>
         LET L == last'.reqs[1].target
             sent == last'.reqs[1].json
         IN  /\ "status" \in DOMAIN sent => sent["status"] \in StatusesOfList(L)
             /\ "custom_fields" \in DOMAIN sent =>
                    \A i \in DOMAIN sent["custom_fields"] :
                        sent["custom_fields"][i].id \in FieldIdsOfList(L)]_vars

====
